---- MODULE Spec2Model ----
(***************************************************************************)
(* Real-time chat synchronisation core of glimmer: the Direct channel view *)
(* (pages/Chats/ChatFeed.tsx), the Room channel view                       *)
(* (pages/Group/RoomChat.tsx) and the identity provider                    *)
(* (contexts/AuthContext.tsx).                                             *)
(*                                                                         *)
(* Strings whose order or content the code inspects (identities, channel   *)
(* identifiers) are tuples of UTF-16 code units: "a@x" is <<97,64,120>>.   *)
(* A nullable value is a tuple of length 0 (null/undefined) or 1.          *)
(* A React render followed by the effects whose dependencies changed is    *)
(* one atomic step.                                                        *)
(***************************************************************************)
EXTENDS Integers, Sequences, FiniteSets, TLC

VARIABLES
    view,           \* "Direct" (ChatFeed) or "Room" (RoomChat): the mounted component
    phase,          \* "init" (not mounted yet), "mounted", "unmounted"
    auth,           \* AuthState of the AuthProvider
    id,             \* useParams().id
    locState,       \* useLocation().state
    lsRoomName,     \* localStorage "currentRoomName"
    query,          \* result of usePrivateMessages / useRoomMessages
    messages,       \* useState<Message[]>
    currentMessage, \* useState(""): ChatFeed currentMessage, RoomChat message
    socket,         \* useState(null): 0 is null, else the socket's number
    isTyping,       \* useState(false): the remote typing flag
    typingTimeout,  \* useState(null): 0 is null, else a timer id
    isConnected,    \* useState(false)
    onlineUsers,    \* useState<string[]>([])
    socks,          \* the transports created by io(), in creation order
    timers,         \* the window.setTimeout timers, indexed by timer id
    eff,            \* socket created by the last run of the socket effect (0: it returned early)
    emitted,        \* the socket.emit calls made by the last step, in order
    toasts,         \* the toast notices raised by the last step
    navs,           \* the navigate() calls made by the last step
    op,             \* the last step: [name, sock]
    keys,           \* keystrokes that armed a timer since the last "typing_stop"
    pA, pB,         \* inputs of the channel identity resolver
    resAB, resBA,   \* resolver outputs for (pA, pB) and (pB, pA)
    rpc             \* "in" before the resolver ran, "out" after

vars == <<view, phase, auth, id, locState, lsRoomName, query, messages, currentMessage,
          socket, isTyping, typingTimeout, isConnected, onlineUsers, socks, timers,
          eff, emitted, toasts, navs, op, keys, pA, pB, resAB, resBA, rpc>>

resolverVars == <<pA, pB, resAB, resBA, rpc>>

----------------------------------------------------------------------------
(* Bounds *)

MaxSockets == 2     \* io() calls
MaxTimers == 2      \* window.setTimeout calls
MaxMessages == 3    \* length of the in-memory message list
MaxStrLen == 2      \* length of the resolver's input strings

----------------------------------------------------------------------------
(* Strings *)

a_x == <<97, 64, 120>>      \* "a@x"
b_x == <<98, 64, 120>>      \* "b@x"
r1 == <<114, 49>>           \* "r1"
NoStr == <<>>               \* "" and undefined

RECURSIVE StrLess(_, _)
\* a < b on strings: by UTF-16 code unit, a proper prefix first
StrLess(a, b) ==
    IF a = <<>> THEN b # <<>>
    ELSE IF b = <<>> THEN FALSE
    ELSE IF Head(a) # Head(b) THEN Head(a) < Head(b)
    ELSE StrLess(Tail(a), Tail(b))

\* [x, y].sort() without the sort: the array as written
ArrayUnsorted2(x, y) == <<x, y>>

\* [x, y].sort(): the default comparator, stable
ArraySort2(x, y) == IF StrLess(y, x) THEN <<y, x>> ELSE <<x, y>>

RECURSIVE ArrayJoin(_, _)
\* arr.join(sep)
ArrayJoin(arr, sep) ==
    IF arr = <<>> THEN <<>>
    ELSE IF Len(arr) = 1 THEN arr[1]
    ELSE arr[1] \o sep \o ArrayJoin(Tail(arr), sep)

\* a separator other than "_"
SeparatorDash == <<45>>

\* the "_" of join("_")
Separator == <<95>>

\* chatId with the two identities joined in the order given
chatIdUnsorted(currentUserEmail, partnerEmail) ==
    ArrayJoin(ArrayUnsorted2(currentUserEmail, partnerEmail), Separator)

\* chatId joined by another separator
chatIdDash(currentUserEmail, partnerEmail) ==
    ArrayJoin(ArraySort2(currentUserEmail, partnerEmail), SeparatorDash)

\* const chatId = [currentUserEmail, partnerEmail].sort().join("_")
chatIdOf(currentUserEmail, partnerEmail) ==
    ArrayJoin(ArraySort2(currentUserEmail, partnerEmail), Separator)

RECURSIVE SplitFirst(_, _)
\* s.split(c)[0]
SplitFirst(s, c) ==
    IF s = <<>> \/ Head(s) = c THEN <<>> ELSE <<Head(s)>> \o SplitFirst(Tail(s), c)

\* x || y on strings
OrElse(x, y) == IF x # <<>> THEN x ELSE y

\* !!x on a string
Truthy(x) == x # <<>>

RECURSIVE NumToString(_)
\* n.toString(): the decimal digits of n
NumToString(n) ==
    IF n < 10 THEN <<48 + n>> ELSE NumToString(n \div 10) \o <<48 + (n % 10)>>

\* formatTime12Hour(date): hour 'numeric', minute '2-digit', hour12; a date is
\* a number of minutes since midnight
formatTime12Hour(date) ==
    LET h == (date \div 60) % 24
        m == date % 60
        h12 == IF h % 12 = 0 THEN 12 ELSE h % 12
    IN  NumToString(h12) \o <<58>> \o <<48 + (m \div 10), 48 + (m % 10)>> \o <<32>>
            \o (IF h < 12 THEN <<65, 77>> ELSE <<80, 77>>)

\* the values new Date() / Date.now() can take
Clock == {540}

----------------------------------------------------------------------------
(* Identity provider: contexts/AuthContext.tsx *)

UserA == [email |-> a_x, username |-> "a", credits |-> 10]
UserB == [email |-> b_x, username |-> "b", credits |-> 10]
\* a user record the backend sent without email and username
UserAnon == [email |-> NoStr, username |-> "", credits |-> 10]

initialState ==
    [user |-> <<>>, isAuthenticated |-> FALSE, isLoading |-> TRUE, token |-> <<>>]

\* a reducer whose SET_USER stores the user without isAuthenticated: true
authReducerSetUserOnly(state, action) ==
    CASE action.type = "SET_LOADING" -> [state EXCEPT !.isLoading = action.flag]
      [] action.type = "LOGIN_SUCCESS" ->
            [user |-> <<action.user>>, token |-> <<action.token>>,
             isAuthenticated |-> TRUE, isLoading |-> FALSE]
      [] action.type = "LOGOUT" ->
            [user |-> <<>>, token |-> <<>>, isAuthenticated |-> FALSE, isLoading |-> FALSE]
      [] action.type = "SET_USER" ->
            [state EXCEPT !.user = <<action.user>>, !.isLoading = FALSE]
      [] action.type = "UPDATE_CREDITS" ->
            [state EXCEPT !.user =
                IF state.user # <<>>
                THEN <<[state.user[1] EXCEPT !.credits = action.credits]>>
                ELSE <<>>]
      [] OTHER -> state

authReducer(state, action) ==
    CASE action.type = "SET_LOADING" -> [state EXCEPT !.isLoading = action.flag]
      [] action.type = "LOGIN_SUCCESS" ->
            [user |-> <<action.user>>, token |-> <<action.token>>,
             isAuthenticated |-> TRUE, isLoading |-> FALSE]
      [] action.type = "LOGOUT" ->
            [user |-> <<>>, token |-> <<>>, isAuthenticated |-> FALSE, isLoading |-> FALSE]
      [] action.type = "SET_USER" ->
            [state EXCEPT !.user = <<action.user>>, !.isAuthenticated = TRUE,
                          !.isLoading = FALSE]
      [] action.type = "UPDATE_CREDITS" ->
            [state EXCEPT !.user =
                IF state.user # <<>>
                THEN <<[state.user[1] EXCEPT !.credits = action.credits]>>
                ELSE <<>>]
      [] OTHER -> state

Act(type, user, token, flag, credits) ==
    [type |-> type, user |-> user, token |-> token, flag |-> flag, credits |-> credits]

----------------------------------------------------------------------------
(* Values of one render *)

hi == <<104, 105>>                                       \* "hi"
UnknownUser == <<85, 110, 107, 110, 111, 119, 110>>      \* "Unknown User", shortened
LocA == [partnerUsername |-> <<97>>, partnerEmail |-> a_x, roomName |-> ""]
LocLab == [partnerUsername |-> NoStr, partnerEmail |-> NoStr, roomName |-> "Lab"]

HasPartnerState(loc) ==
    loc # <<>> /\ Truthy(loc[1].partnerUsername) /\ Truthy(loc[1].partnerEmail)

partnerEmailOf(loc, rid) ==
    IF HasPartnerState(loc) THEN loc[1].partnerEmail ELSE OrElse(rid, NoStr)

partnerUsernameOf(loc, rid) ==
    IF HasPartnerState(loc) THEN loc[1].partnerUsername
    ELSE OrElse(SplitFirst(rid, 64), UnknownUser)

currentUserEmailOf(a) == IF a.user = <<>> THEN NoStr ELSE a.user[1].email

usernameOf(a) == IF a.user = <<>> THEN "" ELSE a.user[1].username

roomNameOf(loc, ls) ==
    IF loc # <<>> /\ loc[1].roomName # "" THEN loc[1].roomName
    ELSE IF ls # "" THEN ls
    ELSE "Neural Hub"

chatIdIn(a, loc, rid) == chatIdOf(currentUserEmailOf(a), partnerEmailOf(loc, rid))

\* this render's values
partnerEmail == partnerEmailOf(locState, id)
partnerUsername == partnerUsernameOf(locState, id)
currentUserEmail == currentUserEmailOf(auth)
currentUsername == usernameOf(auth)
username == usernameOf(auth)
roomName == roomNameOf(locState, lsRoomName)
chatId == chatIdIn(auth, locState, id)

\* the local identity and the channel identifier of the mounted view
MeOf(v, a) == IF v = "Direct" THEN currentUserEmailOf(a) ELSE usernameOf(a)
ChanOf(v, a, loc, rid) == IF v = "Direct" THEN chatIdIn(a, loc, rid) ELSE rid
NameOf(v, loc, rid, ls) ==
    IF v = "Direct" THEN partnerUsernameOf(loc, rid) ELSE roomNameOf(loc, ls)

----------------------------------------------------------------------------
(* Historical fetch: hooks/usePrivateMessages, hooks/useRoomMessages *)

\* entries of a Direct snapshot of channel k
HistD1(k) ==
    [_id |-> <<104, 49>>, chatId |-> k, senderEmail |-> a_x, senderUsername |-> "a",
     receiverEmail |-> b_x, receiverUsername |-> "b", message |-> hi, time |-> NoStr,
     createdAt |-> 539]
HistD2(k) ==
    [_id |-> <<104, 50>>, chatId |-> k, senderEmail |-> b_x, senderUsername |-> "b",
     receiverEmail |-> a_x, receiverUsername |-> "a", message |-> hi,
     time |-> formatTime12Hour(540), createdAt |-> 540]
\* entries of a Room snapshot of room k
HistR1(k) ==
    [_id |-> <<104, 49>>, roomId |-> k, room |-> "Lab", author |-> "a", message |-> hi,
     time |-> NoStr, createdAt |-> 539]
HistR2(k) ==
    [_id |-> NoStr, roomId |-> NoStr, room |-> "", author |-> "b", message |-> hi,
     time |-> formatTime12Hour(540), createdAt |-> 540]

\* the snapshots the fetch of channel k can return
Snapshots(v, k) ==
    IF v = "Direct"
    THEN {<<>>, <<HistD1(k)>>, <<HistD1(k), HistD2(k)>>, <<HistD2(k), HistD1(k)>>}
    ELSE {<<>>, <<HistR1(k)>>, <<HistR1(k), HistR2(k)>>, <<HistR2(k), HistR1(k)>>}

\* useQuery({queryKey: ["messages", roomId], enabled: !!roomId}) on a new key
useRoomMessages(roomId) ==
    [status |-> IF Truthy(roomId) THEN "pending" ELSE "idle", data |-> <<>>]

\* the Direct view's hook: one historical fetch keyed by the channel identifier
usePrivateMessages(k) ==
    [status |-> IF Truthy(k) THEN "pending" ELSE "idle", data |-> <<>>]

\* the query of view v on a new key
NewQuery(v, k) == IF v = "Direct" THEN usePrivateMessages(k) ELSE useRoomMessages(k)

\* the hook's `messages`: <<>> is undefined, <<d>> the fetched list d
initialMessagesOf(q) == IF q.status = "success" THEN <<q.data>> ELSE <<>>

initialMessages == initialMessagesOf(query)
isPending == query.status \in {"idle", "pending"}
isError == query.status = "error"

----------------------------------------------------------------------------
(* The transport: socket.io-client as the views use it *)

Emit(s, ev, args) == [sock |-> s, ev |-> ev, args |-> args]

ToastSuccess(name) == [kind |-> "success", text |-> "Connected to", name |-> <<name>>]
ToastLost == [kind |-> "error", text |-> "Connection lost. Trying to reconnect...",
              name |-> <<>>]

\* newSocket.on(...) of ChatFeed
ChatFeedListeners == {"connect", "disconnect", "receive_private_message", "user_typing"}
\* newSocket.on(...) of RoomChat
RoomChatListeners == {"connect", "disconnect", "receive_room_message", "joining_message",
                      "leave_message", "room_users_update"}

\* io(url) followed by the effect's newSocket.on(...) calls; chan, me and name are
\* the values the effect's closures captured
NewSocket(v, chan, me, name) ==
    [st |-> "opening", on |-> IF v = "Direct" THEN ChatFeedListeners ELSE RoomChatListeners,
     chan |-> chan, me |-> me, name |-> name]

\* what a cleanup that does nothing leaves
NoCleanup(tbl) == [socks |-> tbl, emitted |-> <<>>, lost |-> FALSE]

\* socket.disconnect() after `off` removed the listeners `removed` and `emits` were
\* emitted: a connected socket fires its "disconnect" listeners synchronously
Disconnected(tbl, s, removed, emits) ==
    [socks |-> [tbl EXCEPT ![s].st = "closed", ![s].on = tbl[s].on \ removed],
     emitted |-> emits,
     lost |-> tbl[s].st = "open" /\ "disconnect" \in tbl[s].on]

\* a cleanup of ChatFeed that leaves its listeners registered
ChatFeedCleanupKeepsListeners(tbl, s) ==
    Disconnected(tbl, s, {},
        IF Truthy(tbl[s].chan)
        THEN <<Emit(s, "leave_private_chat", <<tbl[s].chan, tbl[s].me>>)>>
        ELSE <<>>)

\* a cleanup of ChatFeed that disconnects without leaving the channel
ChatFeedCleanupNoLeave(tbl, s) ==
    Disconnected(tbl, s, {"receive_private_message", "user_typing"}, <<>>)

\* the cleanup returned by ChatFeed's socket effect
ChatFeedCleanup(tbl, s) ==
    Disconnected(tbl, s, {"receive_private_message", "user_typing"},
        IF Truthy(tbl[s].chan)
        THEN <<Emit(s, "leave_private_chat", <<tbl[s].chan, tbl[s].me>>)>>
        ELSE <<>>)

\* the cleanup returned by RoomChat's socket effect
RoomChatCleanup(tbl, s) ==
    Disconnected(tbl, s,
        {"receive_room_message", "joining_message", "leave_message", "room_users_update"},
        IF Truthy(tbl[s].chan)
        THEN <<Emit(s, "leave_room", <<tbl[s].chan, tbl[s].me>>)>>
        ELSE <<>>)

\* an effect that returns no cleanup
CleanupNothing(v, tbl, s) == NoCleanup(tbl)

Cleanup(v, tbl, s) ==
    IF v = "Direct" THEN ChatFeedCleanup(tbl, s) ELSE RoomChatCleanup(tbl, s)

\* the guard without its check of the local identity
ChatFeedSocketGuardNoIdentity(a, loc, rid) ==
    /\ Truthy(chatIdIn(a, loc, rid))
    /\ a.isAuthenticated

\* if (!chatId || !currentUserEmail || !isAuthenticated) return;  negated
ChatFeedSocketGuard(a, loc, rid) ==
    /\ Truthy(chatIdIn(a, loc, rid))
    /\ Truthy(currentUserEmailOf(a))
    /\ a.isAuthenticated

\* if (!id || !username || !isAuthenticated) { navigate("/group"); return; }  negated
RoomChatSocketGuard(a, loc, rid) ==
    /\ Truthy(rid)
    /\ usernameOf(a) # ""
    /\ a.isAuthenticated

\* a guard that waits for the historical fetch to succeed
SocketGuardAfterFetch(v, a, loc, rid) ==
    /\ query.status = "success"
    /\ IF v = "Direct" THEN ChatFeedSocketGuard(a, loc, rid)
       ELSE RoomChatSocketGuard(a, loc, rid)

SocketGuard(v, a, loc, rid) ==
    IF v = "Direct" THEN ChatFeedSocketGuard(a, loc, rid) ELSE RoomChatSocketGuard(a, loc, rid)

\* a socket effect that sets the connected flag as soon as it created a transport
ConnectedAfterEffectOptimistic(prev, lost, run) ==
    IF run THEN TRUE ELSE IF lost THEN FALSE ELSE prev

\* the connected flag after the socket effect's cleanup and body: neither calls
\* setIsConnected; the "disconnect" listener does when socket.disconnect() fires it
ConnectedAfterEffect(prev, lost, run) == IF lost THEN FALSE ELSE prev

\* dependency arrays of the socket effects
SocketDeps(v, a, loc, rid, ls) ==
    IF v = "Direct"
    THEN <<chatIdIn(a, loc, rid), currentUserEmailOf(a), a.isAuthenticated>>
    ELSE <<rid, <<usernameOf(a), roomNameOf(loc, ls)>>, a.isAuthenticated>>

----------------------------------------------------------------------------
(* Message Stream Merger: the history effects *)

\* initialMessages.map(...) of ChatFeed
ChatFeedTransform(msg, me) ==
    [id |-> msg._id, chatId |-> msg.chatId, senderEmail |-> msg.senderEmail,
     senderUsername |-> msg.senderUsername, receiverEmail |-> msg.receiverEmail,
     receiverUsername |-> msg.receiverUsername, message |-> msg.message,
     time |-> OrElse(msg.time, formatTime12Hour(msg.createdAt)),
     isOwn |-> msg.senderEmail = me, createdAt |-> msg.createdAt, live |-> FALSE]

\* initialMessages.map(...) of RoomChat; isOwn and isSystem: undefined is FALSE
RoomChatTransform(msg, rid, rname, me, t) ==
    [id |-> OrElse(msg._id, NumToString(t)), roomId |-> OrElse(OrElse(msg.roomId, rid), NoStr),
     room |-> IF msg.room # "" THEN msg.room ELSE rname,
     author |-> IF msg.author # "" THEN msg.author ELSE "Unknown",
     message |-> OrElse(msg.message, NoStr),
     time |-> OrElse(msg.time, formatTime12Hour(msg.createdAt)),
     isOwn |-> msg.author = me, isSystem |-> msg.author = "System",
     createdAt |-> msg.createdAt, live |-> FALSE]

Welcome == <<87, 101, 108, 99, 111, 109, 101>>   \* the welcome text, shortened

welcomeMessage(rid, rname, t) ==
    [id |-> NumToString(t), roomId |-> OrElse(rid, NoStr), room |-> rname,
     author |-> "System", message |-> Welcome, time |-> formatTime12Hour(t),
     isOwn |-> FALSE, isSystem |-> TRUE, createdAt |-> t, live |-> FALSE]


\* ChatFeed: useEffect(..., [initialMessages, currentUserEmail])
ChatFeedHistoryEffect(prev, im, me) ==
    IF im # <<>> /\ Len(im[1]) > 0
    THEN [i \in 1..Len(im[1]) |-> ChatFeedTransform(im[1][i], me)]
    ELSE prev

\* RoomChat: useEffect(..., [initialMessages, id, roomName, username])
RoomChatHistoryEffect(prev, im, rid, rname, me, t) ==
    IF im # <<>> /\ Len(im[1]) > 0
    THEN [i \in 1..Len(im[1]) |-> RoomChatTransform(im[1][i], rid, rname, me, t)]
    ELSE <<welcomeMessage(rid, rname, t)>>

HistoryDeps(v, a, loc, rid, ls, q) ==
    IF v = "Direct"
    THEN <<initialMessagesOf(q), currentUserEmailOf(a)>>
    ELSE <<initialMessagesOf(q), rid, <<roomNameOf(loc, ls), usernameOf(a)>>>>

HistoryEffect(v, prev, a, loc, rid, ls, q, t) ==
    IF v = "Direct"
    THEN ChatFeedHistoryEffect(prev, initialMessagesOf(q), currentUserEmailOf(a))
    ELSE RoomChatHistoryEffect(prev, initialMessagesOf(q), rid, roomNameOf(loc, ls),
                               usernameOf(a), t)

----------------------------------------------------------------------------
(* Render and effects *)

\* the routes a view can be on: <<useParams().id, useLocation().state>>
Routes(v) ==
    IF v = "Direct"
    THEN {<<NoStr, <<>>>>, <<b_x, <<>>>>, <<a_x, <<LocA>>>>}
    ELSE {<<NoStr, <<>>>>, <<r1, <<>>>>, <<r1, <<LocLab>>>>}

\* two of the routes: no partner / no room selected, and one selected
TwoRoutes(v) == IF v = "Direct" THEN {<<NoStr, <<>>>>, <<b_x, <<>>>>}
                ELSE {<<NoStr, <<>>>>, <<r1, <<>>>>}

\* the values of localStorage "currentRoomName": unset, or set by the room list
StoredRoomNames(v) == IF v = "Room" THEN {"", "Lab"} ELSE {""}
NoStoredRoomName(v) == {""}

\* the environment of a specification: every route and stored name, or the two routes
RoutesOf(env, v) == IF env = "two" THEN TwoRoutes(v) ELSE Routes(v)
RoomNamesOf(env, v) == IF env = "two" THEN NoStoredRoomName(v) ELSE StoredRoomNames(v)

\* key of the history query: usePrivateMessages(chatId), useRoomMessages(id || "")
QueryKey(v, a, loc, rid) == ChanOf(v, a, loc, rid)

\* the query after a render with the new values: a new key starts a new fetch
QueryAfter(a2, id2, loc2) ==
    IF QueryKey(view, a2, loc2, id2) = QueryKey(view, auth, locState, id)
    THEN query
    ELSE NewQuery(view, QueryKey(view, a2, loc2, id2))

\* ChatFeed: useEffect(() => { if (!isAuthenticated) navigate("/login") }, [isAuthenticated])
ChatFeedRedirect(first, a2) ==
    IF (first \/ a2.isAuthenticated # auth.isAuthenticated) /\ ~a2.isAuthenticated
    THEN <<"/login">> ELSE <<>>

\* One render with the values a2, id2, loc2, ls2, q2 at time t, and the effects
\* whose dependencies changed (all of them on the first render): cleanups, then
\* effect bodies.
Render(first, a2, id2, loc2, ls2, q2, t, name) ==
    LET sockChanged == first \/ SocketDeps(view, a2, loc2, id2, ls2)
                                    # SocketDeps(view, auth, locState, id, lsRoomName)
        histChanged == first \/ HistoryDeps(view, a2, loc2, id2, ls2, q2)
                                    # HistoryDeps(view, auth, locState, id, lsRoomName, query)
        c == IF sockChanged /\ eff # 0 THEN Cleanup(view, socks, eff) ELSE NoCleanup(socks)
        run == sockChanged /\ SocketGuard(view, a2, loc2, id2)
        n == Len(socks) + 1
    IN  /\ run => Len(socks) < MaxSockets
        /\ auth' = a2
        /\ id' = id2
        /\ locState' = loc2
        /\ lsRoomName' = ls2
        /\ query' = q2
        /\ socks' = IF run
                    THEN Append(c.socks, NewSocket(view, ChanOf(view, a2, loc2, id2),
                                    MeOf(view, a2), NameOf(view, loc2, id2, ls2)))
                    ELSE c.socks
        /\ socket' = IF run THEN n ELSE socket
        /\ eff' = IF sockChanged THEN (IF run THEN n ELSE 0) ELSE eff
        /\ isConnected' = ConnectedAfterEffect(isConnected, c.lost, run)
        /\ emitted' = c.emitted
        /\ toasts' = IF c.lost THEN <<ToastLost>> ELSE <<>>
        /\ navs' = (IF view = "Room" /\ sockChanged /\ ~run THEN <<"/group">> ELSE <<>>)
                   \o (IF view = "Direct" THEN ChatFeedRedirect(first, a2) ELSE <<>>)
        /\ messages' = IF histChanged
                       THEN HistoryEffect(view, messages, a2, loc2, id2, ls2, q2, t)
                       ELSE messages
        /\ op' = [name |-> name, sock |-> IF sockChanged THEN eff ELSE 0]
        /\ UNCHANGED <<view, currentMessage, isTyping, typingTimeout, onlineUsers, timers,
                       keys, resolverVars>>

\* before the mount, on one of the routes RoutesOf(env, view) with one of the stored names RoomNamesOf(env, view)
InitOf(env) ==
    /\ view \in {"Direct", "Room"}
    /\ phase = "init"
    /\ auth = initialState
    /\ \E r \in RoutesOf(env, view) : id = r[1] /\ locState = r[2]
    /\ lsRoomName \in RoomNamesOf(env, view)
    /\ query = [status |-> "idle", data |-> <<>>]
    /\ messages = <<>>
    /\ currentMessage = NoStr
    /\ socket = 0
    /\ isTyping = FALSE
    /\ typingTimeout = 0
    /\ isConnected = FALSE
    /\ onlineUsers = <<>>
    /\ socks = <<>>
    /\ timers = <<>>
    /\ eff = 0
    /\ emitted = <<>>
    /\ toasts = <<>>
    /\ navs = <<>>
    /\ op = [name |-> "init", sock |-> 0]
    /\ keys = 0
    /\ pA = NoStr /\ pB = NoStr /\ resAB = NoStr /\ resBA = NoStr /\ rpc = "in"

Init == InitOf("all")

\* the same with a smaller environment
InitTwo == InitOf("two")

\* the component mounts: first render, every effect runs
Mount ==
    /\ phase = "init"
    /\ phase' = "mounted"
    /\ \E t \in Clock :
         Render(TRUE, auth, id, locState, lsRoomName,
                NewQuery(view, QueryKey(view, auth, locState, id)), t, "mount")

\* the component unmounts: the socket effect's cleanup runs
Unmount ==
    /\ phase = "mounted"
    /\ phase' = "unmounted"
    /\ LET c == IF eff # 0 THEN Cleanup(view, socks, eff) ELSE NoCleanup(socks)
       IN  /\ socks' = c.socks
           /\ emitted' = c.emitted
           /\ isConnected' = ConnectedAfterEffect(isConnected, c.lost, FALSE)
           /\ toasts' = IF c.lost THEN <<ToastLost>> ELSE <<>>
    /\ eff' = 0
    /\ navs' = <<>>
    /\ op' = [name |-> "unmount", sock |-> eff]
    /\ UNCHANGED <<view, auth, id, locState, lsRoomName, query, messages, currentMessage,
                   socket, isTyping, typingTimeout, onlineUsers, timers, keys, resolverVars>>

\* the actions of the AuthProvider that change what a view reads (user,
\* isAuthenticated): LOGIN_SUCCESS from login / loginWithToken / setUser / the
\* saved session, LOGOUT from logout
ProviderActions(users) ==
    {Act("LOGIN_SUCCESS", u, "tok", FALSE, 0) : u \in users}
    \cup {Act("LOGOUT", UserAnon, "", FALSE, 0)}

\* every action of AuthAction: SET_LOADING, LOGIN_SUCCESS, LOGOUT, SET_USER and
\* UPDATE_CREDITS with their payloads
ReducerActions ==
    {Act("SET_LOADING", UserAnon, "", f, 0) : f \in BOOLEAN}
    \cup ProviderActions({UserA, UserB})
    \cup {Act("SET_USER", u, "", FALSE, 0) : u \in {UserA, UserB}}
    \cup {Act("UPDATE_CREDITS", UserAnon, "", FALSE, c) : c \in {0, 5}}

\* one of the actions is dispatched to the reducer of the AuthProvider; a mounted
\* view renders with the new state
DispatchIn(actions) ==
    \E action \in actions :
        LET a2 == authReducer(auth, action)
        IN  /\ a2 # auth
            /\ IF phase = "mounted"
               THEN /\ \E t \in Clock :
                         Render(FALSE, a2, id, locState, lsRoomName,
                                QueryAfter(a2, id, locState), t, "dispatch")
                    /\ UNCHANGED phase
               ELSE /\ auth' = a2
                    /\ op' = [name |-> "dispatch", sock |-> 0]
                    /\ emitted' = <<>> /\ toasts' = <<>> /\ navs' = <<>>
                    /\ UNCHANGED <<view, phase, id, locState, lsRoomName, query, messages,
                                   currentMessage, socket, isTyping, typingTimeout,
                                   isConnected, onlineUsers, socks, timers, eff, keys,
                                   resolverVars>>

\* the AuthProvider dispatches a login of one of the users, or a logout
DispatchOf(users) == DispatchIn(ProviderActions(users))

\* any of three users logs in, or the user logs out
Dispatch ==DispatchOf({UserA, UserB, UserAnon})

\* user A or B logs in, or the user logs out
DispatchTwo == DispatchOf({UserA, UserB})

\* the route changes under the mounted view: another partner or room is selected
NavigateOf(env) ==
    /\ phase = "mounted"
    /\ \E r \in RoutesOf(env, view), t \in Clock :
        /\ r # <<id, locState>>
        /\ Render(FALSE, auth, r[1], r[2], lsRoomName, QueryAfter(auth, r[1], r[2]), t,
                  "navigate")
    /\ UNCHANGED phase

Navigate == NavigateOf("all")

NavigateTwo == NavigateOf("two")

\* the historical fetch resolves with a snapshot
FetchSuccess ==
    /\ phase = "mounted"
    /\ query.status = "pending"
    /\ \E d \in Snapshots(view, QueryKey(view, auth, locState, id)), t \in Clock :
        Render(FALSE, auth, id, locState, lsRoomName, [status |-> "success", data |-> d],
               t, "fetchSuccess")
    /\ UNCHANGED phase

\* the historical fetch fails
FetchError ==
    /\ phase = "mounted"
    /\ query.status = "pending"
    /\ \E t \in Clock :
        Render(FALSE, auth, id, locState, lsRoomName, [status |-> "error", data |-> <<>>],
               t, "fetchError")
    /\ UNCHANGED phase

\* a background refetch of the query delivers a snapshot that differs from the
\* cached one (an equal one keeps the cached reference and runs no effect); the
\* stored log of a channel only grows, so the snapshot holds every cached entry
Refetch ==
    /\ phase = "mounted"
    /\ query.status = "success"
    /\ \E d \in Snapshots(view, QueryKey(view, auth, locState, id)), t \in Clock :
        /\ d # query.data
        /\ \A i \in 1..Len(query.data) : \E j \in 1..Len(d) : d[j] = query.data[i]
        /\ Render(FALSE, auth, id, locState, lsRoomName, [status |-> "success", data |-> d],
                  t, "refetch")
    /\ UNCHANGED phase

----------------------------------------------------------------------------
(* Transport events *)

Sockets == 1..Len(socks)

\* state setters of an unmounted component do nothing
Mounted == phase = "mounted"

\* a connect handler that announces the user without joining
ChatFeedOnConnectNoJoin(s) == <<Emit(s, "user_online", <<socks[s].me>>)>>

\* newSocket.on("connect", ...) of ChatFeed: the events it emits
ChatFeedOnConnect(s) ==
    <<Emit(s, "join_private_chat", <<socks[s].chan, socks[s].me>>),
      Emit(s, "user_online", <<socks[s].me>>)>>

\* newSocket.on("connect", ...) of RoomChat: the events it emits
RoomChatOnConnect(s) == <<Emit(s, "join_room", <<socks[s].chan, socks[s].me>>)>>

\* the transport connects, the first time or after a transport disconnect
TransportConnect ==
    \E s \in Sockets :
        /\ socks[s].st \in {"opening", "reconnecting"}
        /\ socks' = [socks EXCEPT ![s].st = "open"]
        /\ IF "connect" \in socks[s].on
           THEN /\ isConnected' = IF Mounted THEN TRUE ELSE isConnected
                /\ toasts' = <<ToastSuccess(socks[s].name)>>
                /\ emitted' = IF view = "Direct" THEN ChatFeedOnConnect(s)
                              ELSE RoomChatOnConnect(s)
           ELSE /\ emitted' = <<>> /\ toasts' = <<>>
                /\ UNCHANGED isConnected
        /\ navs' = <<>>
        /\ op' = [name |-> "connect", sock |-> s]
        /\ UNCHANGED <<view, phase, auth, id, locState, lsRoomName, query, messages,
                       currentMessage, socket, isTyping, typingTimeout, onlineUsers,
                       timers, eff, keys, resolverVars>>

\* a disconnect handler that joins again
OnDisconnectRejoin(s) ==
    <<Emit(s, IF view = "Direct" THEN "join_private_chat" ELSE "join_room",
           <<socks[s].chan, socks[s].me>>)>>

\* newSocket.on("disconnect", ...) of both views: the events it emits, none
OnDisconnect(s) == <<>>

\* the transport loses its connection and starts to reconnect by itself
TransportDisconnect ==
    \E s \in Sockets :
        /\ socks[s].st = "open"
        /\ socks' = [socks EXCEPT ![s].st = "reconnecting"]
        /\ IF "disconnect" \in socks[s].on
           THEN /\ isConnected' = IF Mounted THEN FALSE ELSE isConnected
                /\ toasts' = <<ToastLost>>
           ELSE /\ toasts' = <<>>
                /\ UNCHANGED isConnected
        /\ emitted' = IF "disconnect" \in socks[s].on THEN OnDisconnect(s) ELSE <<>>
        /\ navs' = <<>>
        /\ op' = [name |-> "disconnect", sock |-> s]
        /\ UNCHANGED <<view, phase, auth, id, locState, lsRoomName, query, messages,
                       currentMessage, socket, isTyping, typingTimeout, onlineUsers,
                       timers, eff, keys, resolverVars>>

\* A packet of an application event reaches socket s: while it is connected, or
\* after it was closed (a packet that was in flight). It runs the listeners that
\* are registered for the event at that moment.
CanDeliver(s) == socks[s].st \in {"open", "closed"}

Other(e) == IF e = a_x THEN b_x ELSE a_x

\* the payloads sent: a's without display time, b's with one
Stamp(fromA) == IF fromA THEN NoStr ELSE formatTime12Hour(540)

\* payloads of "receive_private_message" on socket s
PrivateMessages(s) ==
    {[chatId |-> socks[s].chan, senderEmail |-> e,
      senderUsername |-> IF e = a_x THEN "a" ELSE "b", receiverEmail |-> Other(e),
      receiverUsername |-> IF e = a_x THEN "b" ELSE "a", message |-> hi,
      time |-> Stamp(e = a_x)] : e \in {a_x, b_x}}

\* payloads of "receive_room_message" on socket s
RoomMessages(s) ==
    {[roomId |-> socks[s].chan, room |-> socks[s].name, author |-> au, message |-> hi,
      time |-> Stamp(au = "a")] : au \in {"a", "b"}}

\* handleReceiveMessage: the updater passed to setMessages
handleReceiveMessage(prevMessages, data, me, t) ==
    LET messageExists ==
            \E i \in 1..Len(prevMessages) :
                /\ prevMessages[i].message = data.message
                /\ prevMessages[i].senderEmail = data.senderEmail
                /\ prevMessages[i].time = data.time
        newMessage ==
            [id |-> NumToString(t), chatId |-> data.chatId, senderEmail |-> data.senderEmail,
             senderUsername |-> data.senderUsername, receiverEmail |-> data.receiverEmail,
             receiverUsername |-> data.receiverUsername, message |-> data.message,
             time |-> OrElse(data.time, formatTime12Hour(t)),
             isOwn |-> data.senderEmail = me, createdAt |-> t, live |-> TRUE]
    IN  IF messageExists THEN prevMessages ELSE Append(prevMessages, newMessage)

\* handleRoomMessage: the updater passed to setMessages
handleRoomMessage(prev, data, me, t) ==
    Append(prev,
        [id |-> NumToString(t), roomId |-> data.roomId, room |-> data.room,
         author |-> data.author, message |-> data.message, time |-> data.time,
         isOwn |-> data.author = me, isSystem |-> FALSE, createdAt |-> t, live |-> TRUE])

\* handleSystemMessage: the updater passed to setMessages; rid and rname are the
\* id and roomName the effect captured
handleSystemMessage(prev, data, rid, rname, t) ==
    Append(prev,
        [id |-> NumToString(t), roomId |-> rid, room |-> rname, author |-> "System",
         message |-> data.message, time |-> data.time, isOwn |-> FALSE, isSystem |-> TRUE,
         createdAt |-> t, live |-> TRUE])

\* a handler that takes the local user's own echo as well
handleUserTypingNoFilter(prev, data, me) == data.isTyping

\* handleUserTyping: the new value of isTyping
handleUserTyping(prev, data, me) == IF data.userEmail # me THEN data.isTyping ELSE prev

\* a handler that ignores an empty broadcast
handleUsersUpdateNonEmpty(prev, users) == IF users = <<>> THEN prev ELSE users

\* handleUsersUpdate: the new value of onlineUsers
handleUsersUpdate(prev, users) == users

\* what an inbound application event leaves alone
InboundFrame ==
    /\ emitted' = <<>> /\ toasts' = <<>> /\ navs' = <<>>
    /\ UNCHANGED <<view, phase, auth, id, locState, lsRoomName, query, currentMessage,
                   socket, typingTimeout, isConnected, socks, timers, eff, keys,
                   resolverVars>>

\* "receive_private_message" with payload data reaches socket s at time t
PrivateMessageArrives(s, data, t) ==
    /\ view = "Direct"
    /\ CanDeliver(s)
    /\ messages' = IF "receive_private_message" \in socks[s].on /\ Mounted
                   THEN handleReceiveMessage(messages, data, socks[s].me, t)
                   ELSE messages
    /\ Len(messages') <= MaxMessages
    /\ op' = [name |-> "receive_private_message", sock |-> s]
    /\ UNCHANGED <<isTyping, onlineUsers>>
    /\ InboundFrame

ReceivePrivateMessage ==
    \E s \in Sockets : \E data \in PrivateMessages(s), t \in Clock :
        PrivateMessageArrives(s, data, t)

\* "user_typing" with payload {userEmail: e, isTyping: b} reaches socket s
UserTypingArrives(s, e, b) ==
    /\ view = "Direct"
    /\ CanDeliver(s)
    /\ isTyping' = IF "user_typing" \in socks[s].on /\ Mounted
                   THEN handleUserTyping(isTyping, [userEmail |-> e, isTyping |-> b],
                                         socks[s].me)
                   ELSE isTyping
    /\ op' = [name |-> "user_typing", sock |-> s]
    /\ UNCHANGED <<messages, onlineUsers>>
    /\ InboundFrame

UserTyping ==
    \E s \in Sockets : \E e \in {a_x, b_x}, b \in BOOLEAN : UserTypingArrives(s, e, b)

\* "receive_room_message" with payload data reaches socket s at time t
RoomMessageArrives(s, data, t) ==
    /\ view = "Room"
    /\ CanDeliver(s)
    /\ messages' = IF "receive_room_message" \in socks[s].on /\ Mounted
                   THEN handleRoomMessage(messages, data, socks[s].me, t)
                   ELSE messages
    /\ Len(messages') <= MaxMessages
    /\ op' = [name |-> "receive_room_message", sock |-> s]
    /\ UNCHANGED <<isTyping, onlineUsers>>
    /\ InboundFrame

ReceiveRoomMessage ==
    \E s \in Sockets : \E data \in RoomMessages(s), t \in Clock :
        RoomMessageArrives(s, data, t)

Joined == <<106, 111, 105, 110>>    \* a system notice's text

SystemMessage ==
    /\ view = "Room"
    /\ \E s \in Sockets : \E ev \in {"joining_message", "leave_message"}, t \in Clock :
        /\ CanDeliver(s)
        /\ messages' = IF ev \in socks[s].on /\ Mounted
                       THEN handleSystemMessage(messages,
                                [message |-> Joined, time |-> formatTime12Hour(540)],
                                socks[s].chan, socks[s].name, t)
                       ELSE messages
        /\ Len(messages') <= MaxMessages
        /\ op' = [name |-> ev, sock |-> s]
    /\ UNCHANGED <<isTyping, onlineUsers>>
    /\ InboundFrame

\* payloads of "room_users_update"
Broadcasts == {<<>>, <<"a">>, <<"a", "b">>}

\* "room_users_update" with payload users reaches socket s
RoomUsersArrive(s, users) ==
    /\ view = "Room"
    /\ CanDeliver(s)
    /\ onlineUsers' = IF "room_users_update" \in socks[s].on /\ Mounted
                      THEN handleUsersUpdate(onlineUsers, users)
                      ELSE onlineUsers
    /\ op' = [name |-> "room_users_update", sock |-> s]
    /\ UNCHANGED <<messages, isTyping>>
    /\ InboundFrame

RoomUsersUpdate == \E s \in Sockets : \E users \in Broadcasts : RoomUsersArrive(s, users)

----------------------------------------------------------------------------
(* Typing Indicator State Machine and Outbound Composer *)

RECURSIVE TrimStart(_)
TrimStart(sq) == IF sq # <<>> /\ Head(sq) = 32 THEN TrimStart(Tail(sq)) ELSE sq

RECURSIVE TrimEnd(_)
TrimEnd(sq) ==
    IF sq # <<>> /\ sq[Len(sq)] = 32 THEN TrimEnd(SubSeq(sq, 1, Len(sq) - 1)) ELSE sq

\* a trim that removes nothing
TrimNothing(sq) == sq

\* text.trim()
Trim(sq) == TrimEnd(TrimStart(sq))

\* a text of 501 characters
LongText == [i \in 1..501 |-> 97]

\* the values the input element can hand to onChange: "", " ", "hi", "aaa...a"
InputTexts == {NoStr, <<32>>, hi, LongText}

\* the same with a text that has spaces around it: " hi "
TypedTexts == InputTexts \cup {<<32, 104, 105, 32>>}

\* window.clearTimeout(tid) behind `if (typingTimeout)`
clearTimeout(tms, tid) ==
    IF tid # 0 /\ tms[tid].st = "pending" THEN [tms EXCEPT ![tid].st = "cleared"] ELSE tms

\* window.setTimeout(() => socket.emit("typing_stop", ...), 1000) with the values
\* the callback captured; burst counts the keystrokes since the last "typing_stop"
newTimeout(burst) ==
    [st |-> "pending", sock |-> socket, chatId |-> chatId, userEmail |-> currentUserEmail,
     username |-> currentUsername, delay |-> 1000, burst |-> burst]

\* handleTyping that sets a new timeout without clearing the existing one
handleTypingTimersNoClear(tms, tid, timeout) == Append(tms, timeout)

\* handleTyping: the timers after it cleared the existing timeout and set a new one
handleTypingTimers(tms, tid, timeout) == Append(clearTimeout(tms, tid), timeout)

\* handleOnSubmit that leaves the typing timeout running
handleOnSubmitTimersNoClear(tms, tid) == tms

\* handleOnSubmit: the timers after it cleared the typing timeout
handleOnSubmitTimers(tms, tid) == clearTimeout(tms, tid)

TypingPayload(chan, email, uname) ==
    [chatId |-> chan, userEmail |-> email, username |-> uname]

\* ChatFeed renders its input: authenticated, no fetch error, a partner selected
ChatFeedRendered ==
    /\ Mounted
    /\ auth.isAuthenticated
    /\ ~isError
    /\ Truthy(partnerEmail) /\ Truthy(partnerUsername)

\* RoomChat renders: authenticated
RoomChatRendered == Mounted /\ auth.isAuthenticated

\* textarea onChange of ChatFeed with one of the values `texts`:
\* setCurrentMessage and handleTyping
ChatFeedChangeOf(texts) ==
    /\ view = "Direct"
    /\ ChatFeedRendered
    /\ \E value \in texts :
        /\ value # currentMessage
        /\ IF Len(value) <= 500
           THEN /\ currentMessage' = value
                /\ IF socket # 0 /\ Truthy(chatId)
                   THEN /\ Len(timers) < MaxTimers
                        /\ emitted' = <<Emit(socket, "typing_start",
                                TypingPayload(chatId, currentUserEmail, currentUsername))>>
                        /\ timers' = handleTypingTimers(timers, typingTimeout,
                                                        newTimeout(keys + 1))
                        /\ typingTimeout' = Len(timers) + 1
                        /\ keys' = keys + 1
                   ELSE /\ emitted' = <<>>
                        /\ UNCHANGED <<timers, typingTimeout, keys>>
           ELSE /\ emitted' = <<>>
                /\ UNCHANGED <<currentMessage, timers, typingTimeout, keys>>
    /\ toasts' = <<>> /\ navs' = <<>>
    /\ op' = [name |-> "change", sock |-> socket]
    /\ UNCHANGED <<view, phase, auth, id, locState, lsRoomName, query, messages, socket,
                   isTyping, isConnected, onlineUsers, socks, eff, resolverVars>>

ChatFeedChange == ChatFeedChangeOf(InputTexts)

\* a timeout callback that also clears the remote typing flag
TypingOnTimeoutCleared(prev) == FALSE

\* the remote typing flag after the timeout's callback: it emits "typing_stop" and
\* calls no setIsTyping
TypingOnTimeout(prev) == prev

\* the typing timeout's callback runs; timers of equal delay fire in the order set
TimerFire ==
    /\ \E tid \in 1..Len(timers) :
        /\ timers[tid].st = "pending"
        /\ \A u \in 1..(tid - 1) : timers[u].st # "pending"
        /\ timers' = [timers EXCEPT ![tid].st = "fired"]
        /\ emitted' = <<Emit(timers[tid].sock, "typing_stop",
                TypingPayload(timers[tid].chatId, timers[tid].userEmail,
                              timers[tid].username))>>
        /\ op' = [name |-> "timer", sock |-> timers[tid].sock]
    /\ keys' = 0
    /\ isTyping' = TypingOnTimeout(isTyping)
    /\ toasts' = <<>> /\ navs' = <<>>
    /\ UNCHANGED <<view, phase, auth, id, locState, lsRoomName, query, messages,
                   currentMessage, socket, typingTimeout, isConnected,
                   onlineUsers, socks, eff, resolverVars>>

\* a send that keeps the text in the input
InputAfterSendKept(text) == text

\* setCurrentMessage("") of handleOnSubmit, setMessage("") of handleSendMessage:
\* the input after a send
InputAfterSend(text) == NoStr

\* a send that inserts its own message in the list at once
MessagesAfterSendOptimistic(prev, text) ==
    Append(prev,
        IF view = "Direct"
        THEN [id |-> NoStr, chatId |-> chatId, senderEmail |-> currentUserEmail,
              senderUsername |-> currentUsername, receiverEmail |-> partnerEmail,
              receiverUsername |-> partnerUsername, message |-> text,
              time |-> formatTime12Hour(540), isOwn |-> TRUE, createdAt |-> 540,
              live |-> TRUE]
        ELSE [id |-> NoStr, roomId |-> id, room |-> roomName, author |-> username,
              message |-> text, time |-> formatTime12Hour(540), isOwn |-> TRUE,
              isSystem |-> FALSE, createdAt |-> 540, live |-> TRUE])

\* the message list after a send: handleOnSubmit and handleSendMessage call no
\* setMessages
MessagesAfterSend(prev, text) == prev

\* handleOnSubmit of ChatFeed (Enter in the textarea, or the form's submit)
ChatFeedSubmit ==
    /\ view = "Direct"
    /\ ChatFeedRendered
    /\ \E t \in Clock :
        IF Trim(currentMessage) # NoStr /\ socket # 0 /\ Truthy(chatId)
        THEN /\ emitted' =
                  <<Emit(socket, "send_private_message",
                        [chatId |-> chatId, senderEmail |-> currentUserEmail,
                         senderUsername |-> currentUsername, receiverEmail |-> partnerEmail,
                         receiverUsername |-> partnerUsername, message |-> currentMessage,
                         time |-> formatTime12Hour(t)]),
                    Emit(socket, "typing_stop",
                        TypingPayload(chatId, currentUserEmail, currentUsername))>>
             /\ currentMessage' = InputAfterSend(currentMessage)
             /\ messages' = MessagesAfterSend(messages, currentMessage)
             /\ timers' = handleOnSubmitTimers(timers, typingTimeout)
             /\ keys' = 0
        ELSE /\ emitted' = <<>>
             /\ UNCHANGED <<currentMessage, messages, timers, keys>>
    /\ toasts' = <<>> /\ navs' = <<>>
    /\ op' = [name |-> "submit", sock |-> socket]
    /\ UNCHANGED <<view, phase, auth, id, locState, lsRoomName, query, socket,
                   isTyping, typingTimeout, isConnected, onlineUsers, socks, eff,
                   resolverVars>>

\* Input onChange of RoomChat with one of the values `texts`: setMessage
RoomChatChangeOf(texts) ==
    /\ view = "Room"
    /\ RoomChatRendered
    /\ \E value \in texts :
        /\ value # currentMessage
        /\ currentMessage' = value
    /\ emitted' = <<>> /\ toasts' = <<>> /\ navs' = <<>>
    /\ op' = [name |-> "change", sock |-> socket]
    /\ UNCHANGED <<view, phase, auth, id, locState, lsRoomName, query, messages, socket,
                   isTyping, typingTimeout, isConnected, onlineUsers, socks, timers, eff,
                   keys, resolverVars>>

RoomChatChange == RoomChatChangeOf(InputTexts)

\* a body sent as it was typed
roomMessageBodyAsTyped(text) == text

\* message: message.trim() of handleSendMessage's messageData
roomMessageBody(text) == Trim(text)

\* handleSendMessage of RoomChat
RoomChatSubmit ==
    /\ view = "Room"
    /\ RoomChatRendered
    /\ \E t \in Clock :
        IF Trim(currentMessage) # NoStr /\ socket # 0 /\ Truthy(id)
        THEN /\ emitted' =
                  <<Emit(socket, "send_room_message",
                        [roomId |-> id, room |-> roomName, author |-> username,
                         message |-> roomMessageBody(currentMessage),
                         time |-> formatTime12Hour(t)])>>
             /\ currentMessage' = InputAfterSend(currentMessage)
             /\ messages' = MessagesAfterSend(messages, currentMessage)
        ELSE /\ emitted' = <<>>
             /\ UNCHANGED <<currentMessage, messages>>
    /\ toasts' = <<>> /\ navs' = <<>>
    /\ op' = [name |-> "submit", sock |-> socket]
    /\ UNCHANGED <<view, phase, auth, id, locState, lsRoomName, query, socket,
                   isTyping, typingTimeout, isConnected, onlineUsers, socks, timers, eff,
                   keys, resolverVars>>

\* <Button type="submit" disabled={!message.trim() || !isConnected}>
RoomChatSendEnabled == Trim(currentMessage) # NoStr /\ isConnected

\* the form of RoomChat is submitted through its button, which is enabled
RoomChatFormSubmit == RoomChatSendEnabled /\ RoomChatSubmit

\* leaveRoom of RoomChat; navigate("/group") leaves the route of the view, which
\* unmounts in the same update: the socket effect's cleanup runs
leaveRoom ==
    /\ view = "Room"
    /\ RoomChatRendered
    /\ phase' = "unmounted"
    /\ LET c == IF eff # 0 THEN Cleanup(view, socks, eff) ELSE NoCleanup(socks)
       IN  /\ socks' = c.socks
           /\ emitted' = (IF socket # 0 /\ Truthy(id)
                          THEN <<Emit(socket, "leave_room", <<id, username>>)>>
                          ELSE <<>>) \o c.emitted
           /\ isConnected' = ConnectedAfterEffect(isConnected, c.lost, FALSE)
           /\ toasts' = IF c.lost THEN <<ToastLost>> ELSE <<>>
    /\ lsRoomName' = ""
    /\ navs' = <<"/group">>
    /\ eff' = 0
    /\ op' = [name |-> "leaveRoom", sock |-> eff]
    /\ UNCHANGED <<view, auth, id, locState, query, messages, currentMessage, socket,
                   isTyping, typingTimeout, onlineUsers, timers, keys, resolverVars>>

\* a render without its error branch
ScreenNoError ==
    IF ~auth.isAuthenticated THEN "null"
    ELSE IF view = "Direct" /\ (~Truthy(partnerEmail) \/ ~Truthy(partnerUsername))
    THEN "no chat selected"
    ELSE IF isPending THEN "loading"
    ELSE IF messages = <<>> THEN "empty"
    ELSE "messages"

\* what the component returns. ChatFeed: null, the error screen with its Retry
\* button, the "No chat selected" screen, or the chat with a messages area that
\* shows the loading spinner, the empty conversation or the list. RoomChat: null,
\* or the room with a messages area that shows the loading spinner, the error
\* with its Try Again button, or the list.
Screen ==
    IF ~auth.isAuthenticated THEN "null"
    ELSE IF view = "Direct"
    THEN IF isError THEN "error, retry"
         ELSE IF ~Truthy(partnerEmail) \/ ~Truthy(partnerUsername) THEN "no chat selected"
         ELSE IF isPending THEN "loading"
         ELSE IF messages = <<>> THEN "empty"
         ELSE "messages"
    ELSE IF isPending THEN "loading"
         ELSE IF isError THEN "error, retry"
         ELSE "messages"

----------------------------------------------------------------------------
(* Specifications *)

\* mount, unmount, the inputs of a render and the transport's own events
Lifecycle ==
    \/ Mount
    \/ Unmount
    \/ Dispatch
    \/ Navigate
    \/ TransportConnect
    \/ TransportDisconnect

\* the same with the smaller environment
LifecycleTwo ==
    \/ Mount
    \/ Unmount
    \/ DispatchTwo
    \/ NavigateTwo
    \/ TransportConnect
    \/ TransportDisconnect

\* the lifecycle of a view that stays on its route
LifecycleOnRoute ==
    \/ Mount
    \/ Unmount
    \/ DispatchTwo
    \/ TransportConnect
    \/ TransportDisconnect

Next ==
    \/ Lifecycle
    \/ FetchSuccess
    \/ FetchError
    \/ Refetch
    \/ ReceivePrivateMessage
    \/ UserTyping
    \/ ReceiveRoomMessage
    \/ SystemMessage
    \/ RoomUsersUpdate
    \/ ChatFeedChange
    \/ TimerFire
    \/ ChatFeedSubmit
    \/ RoomChatChange
    \/ RoomChatSubmit
    \/ leaveRoom

\* a Direct or a Room view from before its mount, with its environment
Spec == Init /\ [][Next]_vars

\* Connection Lifecycle Manager
SpecLife == Init /\ [][Lifecycle \/ leaveRoom]_vars

\* Connection Lifecycle Manager with the Room view's composer
SpecIdent == Init /\ [][Lifecycle \/ leaveRoom \/ RoomChatChange \/ RoomChatSubmit]_vars

\* Message Stream Merger: the history fetch and the live message events
Merge ==
    \/ FetchSuccess
    \/ FetchError
    \/ Refetch
    \/ ReceivePrivateMessage
    \/ ReceiveRoomMessage

SpecMerge == InitTwo /\ [][LifecycleOnRoute \/ Merge]_vars

\* every inbound event of a connection
Inbound ==
    \/ ReceivePrivateMessage
    \/ UserTyping
    \/ ReceiveRoomMessage
    \/ SystemMessage
    \/ RoomUsersUpdate

SpecInbound == InitTwo /\ [][LifecycleTwo \/ Inbound]_vars

\* the inbound events of a view that stays on its route: its connection closes on
\* unmount, logout and a change of identity
SpecTeardown == InitTwo /\ [][LifecycleOnRoute \/ Inbound]_vars

\* Typing Indicator State Machine and Outbound Composer
Compose ==
    \/ ChatFeedChange
    \/ TimerFire
    \/ ChatFeedSubmit
    \/ RoomChatChange
    \/ RoomChatSubmit
    \/ UserTyping

SpecCompose == InitTwo /\ [][LifecycleTwo \/ Compose]_vars

\* Outbound Composer of both views, their submit handlers called at any time
Composer ==
    \/ ChatFeedChange
    \/ ChatFeedSubmit
    \/ RoomChatChange
    \/ RoomChatSubmit

SpecComposer == InitTwo /\ [][LifecycleOnRoute \/ Composer]_vars

\* Outbound Composer as the rendered forms drive it: Enter in the textarea of the
\* Direct view, the submit button of the Room view
Send ==
    \/ ChatFeedChange
    \/ ChatFeedSubmit
    \/ RoomChatChange
    \/ RoomChatFormSubmit

SpecSend == InitTwo /\ [][LifecycleOnRoute \/ Send]_vars

\* a send and its echo: the composer and the live message events
Echo ==
    \/ ChatFeedChange
    \/ ChatFeedSubmit
    \/ RoomChatChange
    \/ RoomChatSubmit
    \/ ReceivePrivateMessage
    \/ ReceiveRoomMessage

\* a view that mounts, whose user a logs in or out, and whose transport connects
LifecycleOpen ==
    \/ Mount
    \/ DispatchOf({UserA})
    \/ TransportConnect

SpecEcho == InitTwo /\ [][LifecycleOpen \/ Echo]_vars

\* Outbound Composer with texts that have spaces around them
SpecPayload ==
    InitTwo /\ [][LifecycleOnRoute \/ ChatFeedChangeOf(TypedTexts) \/ ChatFeedSubmit
                    \/ RoomChatChangeOf(TypedTexts) \/ RoomChatSubmit]_vars

\* the remote typing flag of the Direct view, whose user a logs in, with everything
\* that could touch it: typing events, live messages, the local typing timer, the
\* composer and the transport's disconnect
RemoteTyping ==
    \/ Mount
    \/ Unmount
    \/ (DispatchOf({UserA}) /\ auth'.isAuthenticated)
    \/ TransportConnect
    \/ TransportDisconnect
    \/ UserTyping
    \/ ReceivePrivateMessage
    \/ ChatFeedChange
    \/ TimerFire
    \/ ChatFeedSubmit

\* the live connection next to the historical fetch, which succeeds or fails
Live ==
    \/ LifecycleOpen
    \/ FetchSuccess
    \/ FetchError
    \/ ReceivePrivateMessage
    \/ ReceiveRoomMessage

SpecLive == InitTwo /\ [][Live]_vars

\* the reducer of the AuthProvider under every sequence of its actions, before
\* and after a view mounted
SpecAuth == Init /\ [][Mount \/ DispatchIn(ReducerActions)]_vars

\* a view whose user selects another partner or room while the history is
\* fetched and live messages arrive
SpecChannel ==
    Init /\ [][LifecycleOpen \/ Navigate \/ FetchSuccess \/ ReceivePrivateMessage
                 \/ ReceiveRoomMessage]_vars

\* the Direct view before its mount
InitDirect == InitTwo /\ view = "Direct"

\* Typing Indicator State Machine of the Direct view
Typing ==
    \/ ChatFeedChange
    \/ TimerFire
    \/ ChatFeedSubmit

SpecTyping == InitDirect /\ [][LifecycleTwo \/ Typing]_vars

SpecRemoteTyping == InitDirect /\ [][RemoteTyping]_vars

\* the strings of length <= MaxStrLen over "@", "_", "a"
RECURSIVE StrsOfLen(_)
StrsOfLen(n) ==
    IF n = 0 THEN {<<>>}
    ELSE {<<c>> \o w : c \in {64, 95, 97}, w \in StrsOfLen(n - 1)}

Strs == UNION {StrsOfLen(n) : n \in 0..MaxStrLen}

InitResolver ==
    /\ view = "Direct"
    /\ phase = "init"
    /\ auth = initialState
    /\ id = NoStr /\ locState = <<>> /\ lsRoomName = ""
    /\ query = [status |-> "idle", data |-> <<>>]
    /\ messages = <<>> /\ currentMessage = NoStr
    /\ socket = 0 /\ isTyping = FALSE /\ typingTimeout = 0 /\ isConnected = FALSE
    /\ onlineUsers = <<>> /\ socks = <<>> /\ timers = <<>> /\ eff = 0
    /\ emitted = <<>> /\ toasts = <<>> /\ navs = <<>>
    /\ op = [name |-> "init", sock |-> 0]
    /\ keys = 0
    /\ pA \in Strs /\ pB \in Strs
    /\ resAB = NoStr /\ resBA = NoStr /\ rpc = "in"

\* the resolver computes the channel identifier from both participants' side
Resolve ==
    /\ rpc = "in"
    /\ resAB' = chatIdOf(pA, pB)
    /\ resBA' = chatIdOf(pB, pA)
    /\ rpc' = "out"
    /\ UNCHANGED <<view, phase, auth, id, locState, lsRoomName, query, messages,
                   currentMessage, socket, isTyping, typingTimeout, isConnected,
                   onlineUsers, socks, timers, eff, emitted, toasts, navs, op, keys,
                   pA, pB>>

\* the channel identity resolver on every pair of bounded strings
SpecResolver == InitResolver /\ [][Resolve]_vars

----------------------------------------------------------------------------
(* Properties *)

\* the listed message has the (body, senderIdentity, displayTime) of the payload
SameKey(m, data) ==
    /\ m.message = data.message
    /\ m.time = data.time
    /\ IF view = "Direct" THEN m.senderEmail = data.senderEmail ELSE m.author = data.author

InList(data) == \E i \in 1..Len(messages) : ~messages[i].isSystem /\ SameKey(messages[i], data)

\* C1: in both views, the arrival of a live message event whose (body,
\* senderIdentity, displayTime) is that of a message already in the list does not
\* increase the length of the list.
C1_RedeliveryKeepsLength ==
    [][\A s \in Sockets :
        /\ view = "Direct" =>
            \A data \in PrivateMessages(s), t \in Clock :
                (PrivateMessageArrives(s, data, t)
                    /\ \E i \in 1..Len(messages) : SameKey(messages[i], data))
                => Len(messages') <= Len(messages)
        /\ view = "Room" =>
            \A data \in RoomMessages(s), t \in Clock :
                (RoomMessageArrives(s, data, t) /\ InList(data))
                => Len(messages') <= Len(messages)]_vars

\* the live messages of a list, in order
LiveOf(list) == LET IsLive(m) == m.live IN SelectSeq(list, IsLive)
\* the messages of a list that are not live: history entries and the welcome notice
StoredOf(list) == LET IsStored(m) == ~m.live IN SelectSeq(list, IsStored)

FetchCompletes == query.status = "pending" /\ query'.status = "success"

\* C2: when the historical fetch completes, whatever live events were accepted
\* before it, the list is the N historical messages followed by the live messages
\* in their arrival order.
C2_HistoryThenLive ==
    [][FetchCompletes =>
        /\ LiveOf(messages') = LiveOf(messages)
        /\ messages' = StoredOf(messages') \o LiveOf(messages')
        /\ Len(query'.data) > 0 =>
            \E t \in Clock :
                StoredOf(messages') =
                    HistoryEffect(view, <<>>, auth', locState', id', lsRoomName', query', t)
      ]_vars

\* the welcome notice RoomChat shows in place of an empty history
IsPlaceholder(m) == view = "Room" /\ ~m.live /\ m.isSystem /\ m.message = Welcome

\* the message belongs to the channel on display
OfChannel(m) == IF view = "Direct" THEN m.chatId = chatId ELSE m.roomId = id

\* the list holds a message with the sender identity, body and display time of m
Kept(m, list) ==
    \E j \in 1..Len(list) :
        /\ list[j].message = m.message
        /\ list[j].time = m.time
        /\ IF view = "Direct" THEN list[j].senderEmail = m.senderEmail
           ELSE list[j].author = m.author /\ list[j].isSystem = m.isSystem

\* C3: while the view stays mounted on one channel with one identity, a message
\* of that channel that entered the list from the history or from a live event is
\* in the list after every step, with its sender identity, body and display time.
C3_MessagesStay ==
    [][(phase = "mounted" /\ phase' = "mounted"
            /\ auth' = auth /\ id' = id /\ locState' = locState) =>
        \A i \in 1..Len(messages) :
            \/ IsPlaceholder(messages[i])
            \/ ~OfChannel(messages[i])
            \/ Kept(messages[i], messages')]_vars

InboundNames == {"receive_private_message", "user_typing", "receive_room_message",
                 "joining_message", "leave_message", "room_users_update"}

\* C4: an inbound message, typing, presence or system-notice event that arrives on
\* a connection after the cleanup closed it changes no state of the component.
C4_TeardownCleanliness ==
    [][(op'.name \in InboundNames /\ socks[op'.sock].st = "closed") =>
        UNCHANGED <<messages, isTyping, onlineUsers, isConnected, currentMessage, socket,
                    typingTimeout, query, timers>>]_vars

\* an inbound event was delivered to a closed connection of a view that is still
\* mounted, which had received a message before
C4_Witness ==
    /\ op.name \in InboundNames
    /\ phase = "mounted"
    /\ socks[op.sock].st = "closed"
    /\ messages # <<>>

PendingTimers == {i \in 1..Len(timers) : timers[i].st = "pending"}

StopsIn(es) == Cardinality({i \in 1..Len(es) : es[i].ev = "typing_stop"})

\* C5: in the Direct view a burst of K >= 1 keystrokes, each before the previous
\* keystroke's timer fired, leaves one timer; when it fires it emits one "stop
\* typing", and the K - 1 timers before it were cleared without emitting.
C5_OneStopPerBurst ==
    /\ Cardinality(PendingTimers) = (IF keys > 0 THEN 1 ELSE 0)
    /\ op.name = "timer" => StopsIn(emitted) = 1 /\ PendingTimers = {}
    /\ \A tid \in 1..Len(timers) :
        timers[tid].st \in {"pending", "fired"} =>
            /\ timers[tid].burst <= tid
            /\ \A u \in (tid - timers[tid].burst + 1)..(tid - 1) : timers[u].st = "cleared"

\* a timer that closes a burst of two or more keystrokes has fired
C5_Witness ==
    /\ op.name = "timer"
    /\ \E tid \in 1..Len(timers) : timers[tid].st = "fired" /\ timers[tid].burst >= 2

SendsIn(es) == {i \in 1..Len(es) : es[i].ev \in {"send_private_message", "send_room_message"}}

\* C6: in the Direct view a keystroke that arms a timer leaves that timer as the
\* only pending one, a successful send leaves no timer pending, and a timer that
\* is not pending never becomes pending again.
C6_TimerCancelled ==
    /\ [](view = "Direct" =>
            /\ (op.name = "change" /\ emitted # <<>>) => PendingTimers = {typingTimeout}
            /\ (op.name = "submit" /\ SendsIn(emitted) # {}) => PendingTimers = {})
    /\ [][\A i \in 1..Len(timers) :
            timers[i].st # "pending" => timers'[i].st = timers[i].st]_vars

\* a send cancelled the timer of the keystrokes before it
C6_Witness ==
    /\ op.name = "submit"
    /\ SendsIn(emitted) # {}
    /\ typingTimeout # 0
    /\ timers[typingTimeout].st = "cleared"

\* C7: the Direct channel identifier computed with A as local identity and B as
\* partner equals the one computed with B as local identity and A as partner.
C7_OrderIndependent == rpc = "out" => resAB = resBA

\* the resolver ran on two different identities given in descending order
C7_Witness == rpc = "out" /\ pA # pB /\ StrLess(pB, pA) /\ pB # NoStr

\* x and y in ascending order, joined by "_"
SortedJoin(x, y) == IF StrLess(y, x) THEN y \o <<95>> \o x ELSE x \o <<95>> \o y

a_x_b_x == <<97, 64, 120, 95, 98, 64, 120>>     \* "a@x_b@x"

\* C8: the channel identifier of a Direct connection is the two identities in
\* ascending order joined by "_" ("a@x_b@x" for a@x and b@x, whoever is local);
\* a Room view's join, leave and send events carry the room identifier as given.
C8_ChannelIdentifier ==
    /\ (view = "Direct" /\ eff # 0) =>
        /\ socks[eff].chan = SortedJoin(currentUserEmail, partnerEmail)
        /\ {currentUserEmail, partnerEmail} = {a_x, b_x} => socks[eff].chan = a_x_b_x
    /\ view = "Direct" =>
        \A i \in 1..Len(emitted) :
            emitted[i].ev = "join_private_chat" =>
                emitted[i].args[1] = SortedJoin(currentUserEmail, partnerEmail)
    /\ view = "Room" =>
        \A i \in 1..Len(emitted) :
            /\ emitted[i].ev = "join_room" => emitted[i].args[1] = id
            /\ emitted[i].ev = "send_room_message" => emitted[i].args.roomId = id
            /\ emitted[i].ev = "leave_room" =>
                emitted[i].args[1] = socks[emitted[i].sock].chan
    /\ view = "Room" =>
        \A s \in Sockets : socks[s].chan \in {r[1] : r \in Routes(view)}
                           /\ (s = eff => socks[s].chan = id)

\* b@x joined the Direct channel with a@x
C8_Witness ==
    /\ view = "Direct"
    /\ op.name = "connect"
    /\ currentUserEmail = b_x /\ partnerEmail = a_x
    /\ \E i \in 1..Len(emitted) : emitted[i].ev = "join_private_chat"

\* the channel cannot be addressed: an identity or the room identifier is missing
Unaddressable ==
    IF view = "Direct" THEN ~Truthy(currentUserEmail) \/ ~Truthy(partnerEmail)
    ELSE ~Truthy(id)

JoinOrSend == {"join_private_chat", "join_room", "send_private_message",
               "send_room_message"}

\* C9: while the channel of the mounted view is unaddressable, the view has no
\* open transport and emits no join or send event.
C9_UnaddressableNoConnection ==
    (phase = "mounted" /\ Unaddressable) =>
        /\ eff = 0
        /\ \A i \in 1..Len(emitted) : emitted[i].ev \notin JoinOrSend

\* the local identity the view connects with is absent
NoIdentity(a) == IF view = "Direct" THEN ~Truthy(currentUserEmailOf(a)) ELSE usernameOf(a) = ""

\* C10: a step that opens a transport renders an authenticated state with a local
\* identity.
C10_NoConnectionUnauthenticated ==
    [][Len(socks') > Len(socks) => (auth'.isAuthenticated /\ ~NoIdentity(auth'))]_vars

\* a mounted view rendered an authenticated state without identity and has no
\* transport
C10_Witness ==
    /\ phase = "mounted"
    /\ op.name \in {"mount", "dispatch"}
    /\ auth.isAuthenticated /\ NoIdentity(auth)
    /\ eff = 0

\* the text is empty or holds spaces only
Blank(sq) == \A i \in 1..Len(sq) : sq[i] = 32

\* C11: in both views, a submit of an empty or whitespace-only input emits no send
\* event, appends no message and leaves the input buffer unchanged.
C11_BlankSubmit ==
    [][(op'.name = "submit" /\ Blank(currentMessage)) =>
        /\ SendsIn(emitted') = {}
        /\ messages' = messages
        /\ currentMessage' = currentMessage]_vars

\* a whitespace-only input was submitted on a connected view
C11_Witness ==
    /\ op.name = "submit"
    /\ currentMessage = <<32>>
    /\ socket # 0 /\ socks[socket].st = "open"
    /\ isConnected

\* C12: in both views, a submit of a text longer than 500 units emits no send event.
C12_LongSubmit ==
    [][(op'.name = "submit" /\ Len(currentMessage) > 500) => SendsIn(emitted') = {}]_vars

\* C13: a submit while the connection of the view is not connected emits no send
\* event.
C13_SendWhileNotConnected ==
    [][(op'.name = "submit" /\ SendsIn(emitted') # {}) =>
        /\ isConnected
        /\ socket # 0 /\ socks[socket].st = "open"]_vars

\* C14: a presence broadcast received by an open Room view makes the tracked set
\* equal to its payload, and nothing but a broadcast changes the set.
C14_PresenceReplaced ==
    /\ [][\A s \in Sockets, users \in Broadcasts :
            (RoomUsersArrive(s, users) /\ socks[s].st = "open" /\ Mounted)
            => onlineUsers' = users]_vars
    /\ [][onlineUsers' # onlineUsers => op'.name = "room_users_update"]_vars

\* the open view tracked a and b and a broadcast of a alone replaced them
C14_Witness ==
    /\ op.name = "room_users_update"
    /\ Mounted /\ socks[op.sock].st = "open"
    /\ onlineUsers = <<"a">>

JoinNames == {"join_private_chat", "join_room"}

JoinsIn(es) == {i \in 1..Len(es) : es[i].ev \in JoinNames}

\* C15: a transport connect, the first or a later one, leaves the view connected
\* and emits one join event, on the connecting socket, with the channel identifier
\* and the local identity of the current render.
C15_ConnectJoins ==
    op.name = "connect" =>
        /\ Mounted /\ isConnected
        /\ Cardinality(JoinsIn(emitted)) = 1
        /\ \A i \in JoinsIn(emitted) :
            /\ emitted[i].sock = op.sock
            /\ emitted[i].ev = (IF view = "Direct" THEN "join_private_chat" ELSE "join_room")
            /\ emitted[i].args = <<ChanOf(view, auth, locState, id), MeOf(view, auth)>>

\* the transport of the Direct view of a@x and b@x connected and joined a@x_b@x
C15_Witness ==
    /\ op.name = "connect"
    /\ view = "Direct"
    /\ op.sock = eff
    /\ socks[eff].chan = a_x_b_x

AnnouncesIn(es) == {i \in 1..Len(es) : es[i].ev = "user_online"}

\* C16: on a transport connect of an addressable channel a Room view emits a
\* presence-announce event and a Direct view emits none.
C16_AnnounceRoomOnly ==
    (op.name = "connect" /\ ~Unaddressable) =>
        (AnnouncesIn(emitted) # {} <=> view = "Room")

LeaveNames == {"leave_private_chat", "leave_room"}

\* the step closes socket s
Closes(s) == socks[s].st # "closed" /\ socks'[s].st = "closed"

\* a join was emitted on socket s: it connected at least once
Joined_(s) == socks[s].st \in {"open", "reconnecting"}

\* C17: the teardown of an addressable channel emits the leave event (channelId,
\* localIdentity) on its connection if and only if a join was emitted on that
\* connection.
C17_LeaveIffJoined ==
    [][\A s \in Sockets :
        (Closes(s) /\ ~Unaddressable) =>
            ((\E i \in 1..Len(emitted') :
                /\ emitted'[i].ev \in LeaveNames
                /\ emitted'[i].sock = s
                /\ emitted'[i].args = <<socks[s].chan, socks[s].me>>)
             <=> Joined_(s))]_vars

\* C18: a connection that the teardown closed has no listener of the view left.
C18_NoListenerLeft ==
    \A s \in Sockets : socks[s].st = "closed" => socks[s].on = {}

\* C19: a transport disconnect sets the connected flag to false and raises the
\* connection-lost notice; it emits nothing, opens no transport and leaves the
\* reconnect to the transport.
C19_DisconnectReflectsOnly ==
    [][op'.name = "disconnect" =>
        /\ ~isConnected'
        /\ toasts' = <<ToastLost>>
        /\ emitted' = <<>>
        /\ Len(socks') = Len(socks)
        /\ UNCHANGED <<socket, eff, navs, messages, query>>]_vars

\* the transport of a connected view dropped
C19_Witness ==
    /\ op.name = "disconnect"
    /\ Mounted /\ op.sock = eff
    /\ socks[eff].st = "reconnecting"

\* C20: after a successful historical fetch of an authenticated view of an
\* addressable channel the messages of the history are in ascending order of
\* createdAt.
C20_HistorySorted ==
    [][(query'.status = "success" /\ query' # query /\ auth.isAuthenticated
            /\ ~Unaddressable) =>
        \A i, j \in 1..Len(StoredOf(messages')) :
            i < j => StoredOf(messages')[i].createdAt <= StoredOf(messages')[j].createdAt]_vars

\* the text has a character that is not a space
HasText(sq) == \E i \in 1..Len(sq) : sq[i] # 32

\* C21: in both views, a submit of a text that is not blank, on a view that holds
\* a connection to an addressable channel, emits one send event on that
\* connection and leaves the input buffer empty, in that one step: no inbound
\* event is part of it.
C21_SendClearsInput ==
    [][op'.name = "submit" =>
        /\ (HasText(currentMessage) /\ socket # 0 /\ Truthy(ChanOf(view, auth, locState, id)))
            => /\ Cardinality(SendsIn(emitted')) = 1
               /\ \A i \in SendsIn(emitted') : emitted'[i].sock = socket
               /\ currentMessage' = NoStr
        /\ SendsIn(emitted') # {} => currentMessage' = NoStr
        /\ UNCHANGED <<messages, isTyping, onlineUsers, socks, query>>]_vars

\* the Room view sent "hi" and its input is empty
C21_Witness ==
    /\ op.name = "submit"
    /\ view = "Room"
    /\ Cardinality(SendsIn(emitted)) = 1
    /\ \A i \in SendsIn(emitted) : emitted[i].args.message = hi
    /\ currentMessage = NoStr

MessageEvents == {"receive_private_message", "receive_room_message"}

\* entry i of the list after the step is a live message that was not entry i before
NewLive(i) == messages'[i].live /\ (i > Len(messages) \/ messages'[i] # messages[i])

\* C22: in both views a submit leaves the message list as it was, and a live
\* message, the sender's own included, enters the list only in the step of an
\* inbound message event.
C22_NoLocalInsert ==
    /\ [][op'.name = "submit" => messages' = messages]_vars
    /\ [][\A i \in 1..Len(messages') : NewLive(i) => op'.name \in MessageEvents]_vars

\* the Direct view sent a text (the send cleared the typing timer) and its own
\* message then arrived as an inbound event
C22_Witness ==
    /\ op.name = "receive_private_message"
    /\ typingTimeout # 0 /\ timers[typingTimeout].st = "cleared"
    /\ currentMessage = NoStr
    /\ messages # <<>>
    /\ messages[Len(messages)].live /\ messages[Len(messages)].isOwn

\* the message's isOwn flag agrees with its sender and the local identity of the
\* state a; a system notice of the Room view is exempt
OwnFlagRight(m, a) ==
    IF view = "Direct" THEN m.isOwn <=> (m.senderEmail = currentUserEmailOf(a))
    ELSE ~m.isSystem => (m.isOwn <=> (m.author = usernameOf(a)))

\* C23: a step of a mounted view of an addressable channel between two renders
\* of an authenticated user, from a list in which every message that is not a system notice has isOwn true
\* exactly when its sender identity is the local identity, ends with such a list,
\* whether its messages came from the history or from live events.
C23_IsOwnMatchesIdentity ==
    [][(phase = "mounted" /\ phase' = "mounted"
            /\ auth.isAuthenticated /\ auth'.isAuthenticated
            /\ ~Unaddressable
            /\ \A i \in 1..Len(messages) : OwnFlagRight(messages[i], auth))
        => \A i \in 1..Len(messages') : OwnFlagRight(messages'[i], auth')]_vars

\* C24: in the Direct view a typing event whose user identity is the local
\* identity leaves the remote typing flag as it was, and an event of another
\* identity that reaches the open connection of the mounted view sets the flag to
\* the event's value.
C24_OwnEchoIgnored ==
    [][\A s \in Sockets, e \in {a_x, b_x}, b \in BOOLEAN :
        UserTypingArrives(s, e, b) =>
            /\ e = currentUserEmail => isTyping' = isTyping
            /\ (e # currentUserEmail /\ s = eff /\ socks[s].st = "open" /\ Mounted)
                => isTyping' = b]_vars

\* a typing event on the open connection of a@x left the flag true: an event of
\* b@x set it
C24_Witness ==
    /\ op.name = "user_typing"
    /\ Mounted /\ op.sock = eff /\ socks[eff].st = "open"
    /\ isTyping
    /\ currentUserEmail = a_x

\* C25: a step that takes the remote typing flag from true to false is the
\* arrival of a "stop" typing event of another identity than the local one: no
\* timer, inbound message, transport event, render or local action clears it.
C25_ClearedOnlyByStop ==
    [][(isTyping /\ ~isTyping') =>
        \E s \in Sockets :
            /\ UserTypingArrives(s, Other(currentUserEmail), FALSE)
            /\ "user_typing" \in socks[s].on]_vars

\* the flag is still true after the transport dropped, a timer of the local user
\* fired and a message of the peer arrived
C25_Witness ==
    /\ isTyping
    /\ Mounted /\ eff # 0 /\ socks[eff].st = "reconnecting"
    /\ \E i \in 1..Len(timers) : timers[i].st = "fired"
    /\ \E i \in 1..Len(messages) : messages[i].live /\ ~messages[i].isOwn

\* the historical fetch has not delivered: it is pending or it failed
FetchNotDone == query.status \in {"pending", "error"}

\* the socket effect's guard passes in this render
GuardPasses ==
    IF view = "Direct" THEN ChatFeedSocketGuard(auth, locState, id)
    ELSE RoomChatSocketGuard(auth, locState, id)

\* C26: whatever the state of the historical fetch, a mounted view whose guard
\* passes holds a transport that is not closed; and while the fetch is pending or
\* has failed, a connect of that transport emits the join, and a live message that
\* reaches it and has no equal in the list is appended to the list.
C26_FetchDoesNotBlockLive ==
    /\ []((Mounted /\ GuardPasses) => (eff # 0 /\ socket = eff /\ socks[eff].st # "closed"))
    /\ [][(FetchNotDone /\ Mounted /\ op'.name = "connect" /\ op'.sock = eff)
            => JoinsIn(emitted') # {}]_vars
    /\ [][(FetchNotDone /\ Mounted /\ op'.name \in MessageEvents /\ op'.sock = eff
                /\ socks[eff].st = "open")
            => \/ /\ Len(messages') = Len(messages) + 1
                  /\ messages'[Len(messages')].live
                  /\ SubSeq(messages', 1, Len(messages)) = messages
               \/ /\ view = "Direct"
                  /\ messages' = messages
                  /\ \E data \in PrivateMessages(eff) :
                        \E i \in 1..Len(messages) : SameKey(messages[i], data)]_vars

\* the fetch failed, and a live message that arrived on the open transport after
\* that is in the list
C26_Witness ==
    /\ query.status = "error"
    /\ op.name \in MessageEvents
    /\ Mounted /\ op.sock = eff /\ socks[eff].st = "open"
    /\ messages # <<>>
    /\ messages[Len(messages)].live

\* C27: while the historical fetch of a mounted view of an authenticated user has
\* failed, the view shows the error with its retry button; it shows neither the
\* empty conversation nor the message list, whatever the list holds.
C27_FetchErrorShown ==
    (Mounted /\ auth.isAuthenticated /\ query.status = "error") => Screen = "error, retry"

\* the fetch of a Room view failed while its list holds the welcome notice alone
C27_Witness ==
    /\ Mounted /\ auth.isAuthenticated /\ query.status = "error"
    /\ view = "Room"
    /\ Len(messages) = 1 /\ IsPlaceholder(messages[1])

\* the transports that are not terminated
LiveSockets == {s \in Sockets : socks[s].st # "closed"}

\* C28: in every state at most one transport of the view is not terminated, and
\* it is the one of the last run of the socket effect of the mounted view; a step
\* that opens a transport leaves every transport before it terminated.
C28_OneTransport ==
    /\ [](/\ Cardinality(LiveSockets) <= 1
          /\ \A s \in LiveSockets : s = eff /\ Mounted)
    /\ [][Len(socks') > Len(socks) =>
            \A s \in 1..Len(socks) : socks'[s].st = "closed"]_vars

\* a change of identity or channel closed the first transport, with its leave
\* event, and opened the second in one step
C28_Witness ==
    /\ op.name \in {"dispatch", "navigate"}
    /\ Len(socks) = 2 /\ eff = 2
    /\ socks[1].st = "closed" /\ socks[2].st = "opening"
    /\ \E i \in 1..Len(emitted) : emitted[i].sock = 1 /\ emitted[i].ev \in LeaveNames

\* two entries of the list have the same body, sender identity and display time
SameTriple(m, n) ==
    m.message = n.message /\ m.senderEmail = n.senderEmail /\ m.time = n.time

\* C29: in a mounted Direct view of an authenticated user on an addressable
\* channel, no two entries of the message list have the same (body,
\* senderIdentity, displayTime).
C29_DirectDuplicateFree ==
    (view = "Direct" /\ Mounted /\ auth.isAuthenticated /\ ~Unaddressable) =>
        \A i, j \in 1..Len(messages) : i < j => ~SameTriple(messages[i], messages[j])

\* C30: a mount of either view on the route of a partner or a room while
\* unauthenticated opens no transport and navigates to "/login".
C30_UnauthenticatedRedirect ==
    [][(op'.name = "mount" /\ ~auth'.isAuthenticated /\ Truthy(id')) =>
        /\ Len(socks') = Len(socks)
        /\ \E i \in 1..Len(navs') : navs'[i] = "/login"]_vars

\* the step ran the "connect" listener of the view on a transport
ConnectHandlerRan ==
    /\ op'.name = "connect"
    /\ "connect" \in socks[op'.sock].on
    /\ socks'[op'.sock].st = "open"

\* the step ran the "disconnect" listener of the view: a connected transport that
\* has it dropped, or was terminated by socket.disconnect()
DisconnectHandlerRan ==
    \E s \in Sockets :
        socks[s].st = "open" /\ socks'[s].st # "open" /\ "disconnect" \in socks[s].on

LocalNames == {"submit", "change"}

\* C31: the connected flag turns true only in a step that ran the "connect"
\* listener and false only in a step that ran the "disconnect" listener; a send
\* or a keystroke leaves it as it was, and so does a run of the socket effect
\* that creates a transport and fires no "disconnect" listener.
C31_ConnectedFlagByTransport ==
    [][/\ (~isConnected /\ isConnected') => ConnectHandlerRan
       /\ (isConnected /\ ~isConnected') => DisconnectHandlerRan
       /\ op'.name \in LocalNames => isConnected' = isConnected
       /\ (Len(socks') > Len(socks) /\ ~DisconnectHandlerRan)
            => isConnected' = isConnected]_vars

\* a change of identity tore the connected transport down, which turned the flag
\* false through the "disconnect" listener, and created the next one, which left
\* it false
C31_Witness ==
    /\ op.name = "dispatch"
    /\ Len(socks) = 2 /\ socks[1].st = "closed" /\ socks[2].st = "opening"
    /\ toasts = <<ToastLost>>
    /\ ~isConnected

\* the send events among the events es
SendEvents(es) == {es[i] : i \in SendsIn(es)}

\* the send event carries the channel identifier and the identities of this render
CarriesIdentity(e) ==
    IF view = "Direct"
    THEN /\ e.ev = "send_private_message"
         /\ e.args.chatId = SortedJoin(currentUserEmailOf(auth), partnerEmailOf(locState, id))
         /\ e.args.senderEmail = currentUserEmailOf(auth)
         /\ e.args.receiverEmail = partnerEmailOf(locState, id)
    ELSE /\ e.ev = "send_room_message"
         /\ e.args.roomId = id
         /\ e.args.author = usernameOf(auth)

\* C32 as stated: every send event a step emits carries the current channel
\* identifier, the local identity as sender (Direct: senderEmail the local email,
\* receiverEmail the partner's; Room: author the local username) and a body equal
\* to the submitted text.
C32_SendPayload ==
    [][\A e \in SendEvents(emitted') :
        /\ op'.name = "submit"
        /\ CarriesIdentity(e)
        /\ e.args.message = currentMessage]_vars

\* C32 amended: every send event a step emits carries the current channel
\* identifier and the local identity as sender; its body is the submitted text as
\* typed in the Direct view, and the submitted text without the whitespace around
\* it in the Room view.
C32_SendPayloadTrimmed ==
    [][\A e \in SendEvents(emitted') :
        /\ op'.name = "submit"
        /\ CarriesIdentity(e)
        /\ e.args.message = (IF view = "Direct" THEN currentMessage
                             ELSE TrimEnd(TrimStart(currentMessage)))]_vars

\* a@x sent " hi " to b@x on a@x_b@x as typed
C32_Witness ==
    /\ op.name = "submit"
    /\ view = "Direct"
    /\ currentUserEmail = a_x
    /\ \E e \in SendEvents(emitted) :
        e.args.message = <<32, 104, 105, 32>> /\ e.args.chatId = a_x_b_x

\* the leave events among the events es that were emitted on socket s
LeavesOn(es, s) == {i \in 1..Len(es) : es[i].ev \in LeaveNames /\ es[i].sock = s}

\* C33: a step of the Room view of a user with an identity emits at most one
\* leave event on a connected transport, the explicit leave-room action with the
\* teardown that follows it included, and it emits a leave event only on a
\* transport that it terminates: at most one leave event for each connection.
C33_OneLeavePerConnection ==
    [][(view = "Room" /\ ~NoIdentity(auth) /\ ~Unaddressable) =>
        \A s \in Sockets :
            /\ socks[s].st = "open" => Cardinality(LeavesOn(emitted', s)) <= 1
            /\ LeavesOn(emitted', s) # {} => Closes(s)]_vars

\* C34: no step emits an event on a transport that a teardown terminated before
\* the step; a typing timer that was set before the teardown emits no
\* "typing_stop" on it.
C34_NoEmitAfterTeardown ==
    [][\A i \in 1..Len(emitted') : socks[emitted'[i].sock].st # "closed"]_vars

\* the channels of the local user with a partner
OwnChannels == {chatIdOf(currentUserEmail, p) : p \in {a_x, b_x}}

\* C35: when the historical fetch of the channel on display completes in a
\* mounted Direct view of an authenticated user, whose list holds messages of
\* that user's channels only, every message in the list afterwards carries the
\* identifier of the channel on display, also when the fetched history is empty
\* and another channel was on display before.
C35_ListOfCurrentChannel ==
    [][(view = "Direct" /\ Mounted /\ auth.isAuthenticated /\ ~Unaddressable
            /\ FetchCompletes
            /\ \A i \in 1..Len(messages) : messages[i].chatId \in OwnChannels)
        => \A i \in 1..Len(messages') : messages'[i].chatId = chatId]_vars

\* C36: a step raises the connection-lost notice only if it is a disconnect of
\* the transport's own; a step in which the view terminates a transport (a
\* cleanup's leave and disconnect) raises none.
C36_LostNoticeNotOnTeardown ==
    [][(\E i \in 1..Len(toasts') : toasts'[i] = ToastLost) =>
        /\ op'.name = "disconnect"
        /\ \A s \in Sockets : ~Closes(s)]_vars

\* the step renders a logout in a mounted view whose transport is connected
LogoutWhileOpen ==
    /\ Mounted
    /\ auth.isAuthenticated /\ ~auth'.isAuthenticated
    /\ eff # 0 /\ socks[eff].st = "open"

\* C37: a logout rendered by a mounted view with a connected transport emits the
\* leave event (channelId, localIdentity) on that transport, terminates it and
\* opens none; and while the state is unauthenticated every transport of the view
\* is terminated: none is opened before a login.
C37_LogoutTearsDown ==
    /\ [][LogoutWhileOpen =>
            /\ \E i \in 1..Len(emitted') :
                /\ emitted'[i].ev \in LeaveNames
                /\ emitted'[i].sock = eff
                /\ emitted'[i].args = <<socks[eff].chan, socks[eff].me>>
            /\ socks'[eff].st = "closed"
            /\ Len(socks') = Len(socks)
            /\ eff' = 0]_vars
    /\ [](~auth.isAuthenticated => LiveSockets = {})

\* a logout closed the connected transport of the Direct view of a@x and b@x,
\* with its leave event, and opened none
C37_Witness ==
    /\ op.name = "dispatch"
    /\ view = "Direct" /\ Mounted
    /\ ~auth.isAuthenticated
    /\ eff = 0 /\ Len(socks) = 1 /\ socks[1].st = "closed" /\ socks[1].chan = a_x_b_x
    /\ \E i \in 1..Len(emitted) : emitted[i].ev = "leave_private_chat"
    /\ toasts = <<ToastLost>>

\* C38: in every state the reducer reaches from the initial state by its actions,
\* isAuthenticated is true exactly when user is not null, and SET_LOADING and
\* UPDATE_CREDITS applied to that state leave isAuthenticated as it is.
C38_AuthenticatedIffUser ==
    /\ auth.isAuthenticated <=> auth.user # <<>>
    /\ \A action \in ReducerActions :
        action.type \in {"SET_LOADING", "UPDATE_CREDITS"} =>
            authReducer(auth, action).isAuthenticated = auth.isAuthenticated

\* SET_USER on the initial state, then UPDATE_CREDITS and SET_LOADING: a user with
\* 5 credits, no token, authenticated and loading
C38_Witness ==
    /\ auth.user # <<>> /\ auth.user[1].credits = 5
    /\ auth.token = <<>>
    /\ auth.isLoading
    /\ auth.isAuthenticated

====
